---- MODULE Spec2Model ----
(***************************************************************************)
(* Model of the recursive extraction-and-consolidation pipeline of         *)
(* extract.py: extract_rpf_recursive, move_files and ensure_clean_dirs,    *)
(* and of what extraction_thread does with the outcome.                    *)
(*                                                                         *)
(* A file name is the pair os.path.splitext gives, [base, ext] (ext        *)
(* without its dot); every file name of the model holds exactly one dot.   *)
(* A directory is the sequence of its path segments.  The file system      *)
(* below the top container's directory is the pair (dirs, files), both in  *)
(* creation order, which is the order os.listdir and os.walk report here.  *)
(* The two buckets are kept apart from it: they live under output_dir and  *)
(* no walk of an extraction directory reaches them.                        *)
(***************************************************************************)
EXTENDS Naturals, Sequences, FiniteSets, TLC

\* ------------------------------------------------------------------------
\* Bounds of the model

\* Environment faults (a failed copy, a failed rmtree) injected in one run.
MaxFaults == 2

\* ------------------------------------------------------------------------
\* Static tables, extract.py lines 16-34

STREAM_EXTENSIONS ==
  {"yft", "ytd", "ydr", "ydd", "ybn", "ymap", "ytyp", "awc", "cut", "rel",
   "ynv", "ycd", "ynd", "ypdb", "ysc", "yvr", "xtd"}

DATA_EXTENSIONS == {"meta", "xml", "dat"}

IMPORTANT_FOLDERS == {"vehicles", "weapons", "peds", "props"}

IGNORE_FOLDERS ==
  {"audio", "lang", "common.rpf", "x64a.rpf", "x64b.rpf", "x64c.rpf",
   "x64d.rpf", "x64e.rpf", "x64f.rpf", "x64g.rpf", "dlc_patch", "update",
   "platform"}

\* ------------------------------------------------------------------------
\* Strings.  TLC cannot take a string apart, so str.lower() and the
\* substring test `w in s` are given by their graphs on the strings the
\* model uses: every other string is lower case already and holds none of
\* the folder names.

\* str.lower()
Lower(s) ==
  CASE s = "RPF" -> "rpf"
    [] s = "YDR" -> "ydr"
    [] OTHER -> s

\* The pairs <<s, w>>, s a lower-cased path segment of the model and w a
\* folder name of the two tables, with w a substring of s.
SubstringPairs ==
  {<<"vehicles", "vehicles">>, <<"audio", "audio">>,
   <<"audio_sfx", "audio">>}

\* w in s
Contains(s, w) == <<s, w>> \in SubstringPairs

\* any(w in root.lower() for w in words): the folder names hold no path
\* separator, so one of them is a substring of the path exactly when it is
\* a substring of one of the path's segments.
AnyWordIn(words, root) ==
  \E i \in 1..Len(root) : \E w \in words : Contains(Lower(root[i]), w)

\* ------------------------------------------------------------------------
\* Paths

NoDir == <<"?">>

\* os.path.join(d, seg)
Join(d, seg) == Append(d, seg)

\* os.path.dirname of a directory path
Parent(d) == SubSeq(d, 1, Len(d) - 1)

\* d is p or lies below p
IsPrefix(p, d) == Len(p) <= Len(d) /\ SubSeq(d, 1, Len(p)) = p

\* os.path.basename(rpf_file)
FileString(name) == name.base \o "." \o name.ext

\* f"_temp_{os.path.basename(rpf_file)}_extract"
TempSeg(name) == "_temp_" \o FileString(name) \o "_extract"

\* ------------------------------------------------------------------------
\* The decoder's inputs: what each container decodes to.  A tree is the
\* sequence of the files the decoder writes, each with the folder it lies
\* in below the output directory.

N(b, e) == [base |-> b, ext |-> e]

E(sub, b, e) == [sub |-> sub, name |-> N(b, e)]

Top == <<>>

\* a.yft, b.meta and the nested container c.rpf, which holds d.ydr
WorldScenario ==
  [c \in {"root", "c", "e", "g"} |->
     CASE c = "root" -> <<E(Top, "a", "yft"), E(Top, "b", "meta"),
                          E(Top, "c", "rpf")>>
       [] c = "c" -> <<E(Top, "d", "ydr")>>
       [] OTHER -> <<>>]

\* the same scenario with b.meta in an important folder
WorldScenarioVehicles ==
  [c \in {"root", "c", "e", "g"} |->
     CASE c = "root" -> <<E(Top, "a", "yft"), E(<<"vehicles">>, "b", "meta"),
                          E(Top, "c", "rpf")>>
       [] c = "c" -> <<E(Top, "d", "ydr")>>
       [] OTHER -> <<>>]

\* the same name three times over, from the container and two siblings
WorldCollide ==
  [c \in {"root", "c", "e", "g"} |->
     CASE c = "root" -> <<E(Top, "x", "ydr"), E(Top, "c", "rpf"),
                          E(Top, "e", "RPF")>>
       [] c = "c" -> <<E(Top, "x", "ydr"), E(Top, "x_1", "ydr")>>
       [] c = "e" -> <<E(Top, "x", "ydr")>>
       [] OTHER -> <<>>]

\* important and ignored folders
WorldFolders ==
  [c \in {"root", "c", "e", "g"} |->
     CASE c = "root" -> <<E(Top, "n", "txt"),
                          E(<<"vehicles">>, "h", "meta"),
                          E(<<"vehicles">>, "k", "txt"),
                          E(<<"vehicles">>, "c", "rpf"),
                          E(<<"audio">>, "s", "ydr"),
                          E(<<"audio_sfx">>, "e", "rpf")>>
       [] c = "c" -> <<E(Top, "t", "txt")>>
       [] c = "e" -> <<E(Top, "d", "ydr")>>
       [] OTHER -> <<>>]

\* two levels of nesting, a container holding nothing to move, an empty one
WorldDeep ==
  [c \in {"root", "c", "e", "g"} |->
     CASE c = "root" -> <<E(Top, "g", "rpf"), E(Top, "c", "rpf"),
                          E(Top, "m", "xml")>>
       [] c = "g" -> <<E(Top, "n", "txt")>>
       [] c = "c" -> <<E(Top, "e", "rpf")>>
       [] c = "e" -> <<E(Top, "d", "YDR")>>
       [] OTHER -> <<>>]

\* the empty container
WorldEmpty == [c \in {"root", "c", "e", "g"} |-> <<>>]

Worlds ==
  {WorldScenario, WorldScenarioVehicles, WorldCollide, WorldFolders, WorldDeep,
   WorldEmpty}

\* The content of a file the decoder writes: which container it came from
\* and under which name.
DataOf(cont, e) == cont \o ":" \o FileString(e.name)

\* The top container and its directory
RootRpf == [dir |-> <<"mods">>, name |-> N("root", "rpf")]

\* What the buckets may hold before the run: no bucket directories at all,
\* or both with a file of an earlier run.
NoBucket == [exists |-> FALSE, files |-> {}]

OldStream == [exists |-> TRUE, files |-> {[name |-> N("x", "ydr"), data |-> "old"]}]

OldData == [exists |-> TRUE, files |-> {[name |-> N("b", "meta"), data |-> "old"]}]

\* ------------------------------------------------------------------------
\* State

VARIABLES
  world,       \* the decoder's table: container base name -> tree
  dirs,        \* the directories below RootRpf.dir, in creation order
  files,       \* the files below RootRpf.dir: [dir, name, data], in creation order
  stream_dir,  \* the stream bucket: [exists, files], files a set of [name, data]
  data_dir,    \* the data bucket
  stack,       \* the frames of extract_rpf_recursive, the innermost last
  ret,         \* what the call that returned last returned
  calls,       \* history: the calls in the order they started
  moves,       \* history: the copies move_files attempted, in order
  cleans,      \* history: how often ensure_clean_dirs ran
  faults,      \* environment faults injected so far
  thread       \* extraction_thread: where it is (pc) and its deleted_rpfs

vars == <<world, dirs, files, stream_dir, data_dir, stack, ret, calls, moves,
          cleans, faults, thread>>

\* Python's None; a value that is present is Some(v)
None == <<>>

Some(v) == <<v>>

ZeroTally == [stream |-> 0, data |-> 0, skipped |-> 0]

\* The frame of a call as it starts, lines 183-192
NewFrame(rpf, is_nested, cid) ==
  [rpf |-> rpf, is_nested |-> is_nested, cid |-> cid, pc |-> "run",
   extraction_dir |->
     IF is_nested THEN Join(rpf.dir, TempSeg(rpf.name))
                  ELSE Join(rpf.dir, "dlc"),
   base_dir |-> NoDir, moved_files |-> ZeroTally, total_files |-> 0,
   todo |-> <<>>, nested_rpfs |-> <<>>, idx |-> 0, child |-> 0,
   successfully_extracted_rpfs |-> <<>>]

\* The record kept of a call: what it was called on and by which call, what
\* the decoder did (loc), the directory located as its output (base_dir),
\* what its own move_files counted (own), the nested containers it found
\* (nested), whether the removal of its scratch directory failed, and what
\* it returned.
NewCall(rpf, depth, parent) ==
  [rpf |-> rpf, depth |-> depth, parent |-> parent, status |-> "running",
   loc |-> "", base_dir |-> NoDir, own |-> ZeroTally, nested |-> <<>>,
   rm_failed |-> FALSE, result |-> None, rpfs |-> <<>>]

Init ==
  /\ world \in Worlds
  /\ dirs = <<>>
  /\ files = <<>>
  /\ \/ stream_dir = NoBucket /\ data_dir = NoBucket
     \/ stream_dir = OldStream /\ data_dir = OldData
  /\ stack = <<NewFrame(RootRpf, FALSE, 1)>>
  /\ ret = [result |-> None, error |-> None, rpfs |-> <<>>, done |-> FALSE]
  /\ calls = <<NewCall(RootRpf, 0, 0)>>
  /\ moves = <<>>
  /\ cleans = 0
  /\ faults = 0
  /\ thread = [pc |-> "extract", deleted_rpfs |-> <<>>]

\* ------------------------------------------------------------------------
\* The file system

Range(s) == {s[i] : i \in 1..Len(s)}

Last(s) == s[Len(s)]

\* os.path.exists / os.path.isdir of a directory path
DirExists(ds, d) == d \in Range(ds)

AddDir(ds, d) == IF DirExists(ds, d) THEN ds ELSE Append(ds, d)

\* os.makedirs: d and the folders sub[1..k] below it
RECURSIVE MakeDirs(_, _, _, _)
MakeDirs(ds, d, sub, k) ==
  IF k > Len(sub) THEN AddDir(ds, d)
  ELSE MakeDirs(AddDir(ds, d), Join(d, sub[k]), sub, k + 1)

\* Writing one file: a file of that path is replaced where it stands
PutFile(fs, f) ==
  IF \E i \in 1..Len(fs) : fs[i].dir = f.dir /\ fs[i].name = f.name
  THEN [i \in 1..Len(fs) |->
          IF fs[i].dir = f.dir /\ fs[i].name = f.name THEN f ELSE fs[i]]
  ELSE Append(fs, f)

RECURSIVE SubPath(_, _, _)
SubPath(d, sub, k) == IF k > Len(sub) THEN d ELSE SubPath(Join(d, sub[k]), sub, k + 1)

\* The decoder writing the tree of container cont into directory target
RECURSIVE TreeDirs(_, _, _, _)
TreeDirs(ds, target, tree, i) ==
  IF i > Len(tree) THEN AddDir(ds, target)
  ELSE TreeDirs(MakeDirs(ds, target, tree[i].sub, 1), target, tree, i + 1)

RECURSIVE TreeFiles(_, _, _, _, _)
TreeFiles(fs, target, cont, tree, i) ==
  IF i > Len(tree) THEN fs
  ELSE TreeFiles(PutFile(fs, [dir |-> SubPath(target, tree[i].sub, 1),
                              name |-> tree[i].name,
                              data |-> DataOf(cont, tree[i])]),
                 target, cont, tree, i + 1)

\* shutil.rmtree(d)
RmTreeDirs(ds, d) == SelectSeq(ds, LAMBDA x : ~IsPrefix(d, x))

RmTreeFiles(fs, d) == SelectSeq(fs, LAMBDA f : ~IsPrefix(d, f.dir))

\* os.walk(d), top-down: the files of each directory it yields, in order
RECURSIVE WalkFrom(_, _, _)
WalkFrom(pending, ds, fs) ==
  IF pending = <<>> THEN <<>>
  ELSE LET d == Head(pending)
           subs == SelectSeq(ds, LAMBDA x : Len(x) = Len(d) + 1 /\ Parent(x) = d)
       IN  SelectSeq(fs, LAMBDA f : f.dir = d)
             \o WalkFrom(subs \o Tail(pending), ds, fs)

Walk(d, ds, fs) == IF DirExists(ds, d) THEN WalkFrom(<<d>>, ds, fs) ELSE <<>>

\* ------------------------------------------------------------------------
\* extract_rpf_recursive, lines 183-301

Cur == stack[Len(stack)]

At(pc) == stack # <<>> /\ Cur.pc = pc

SetCur(f) == [stack EXCEPT ![Len(stack)] = f]

\* A return statement of the current call: the value goes to the caller,
\* which resumes at line 285, or the run is over.
Return(val) ==
  /\ ret' = [result |-> val.result, error |-> val.error, rpfs |-> val.rpfs,
             done |-> Len(stack) = 1]
  /\ calls' = [calls EXCEPT ![Cur.cid].status =
                              IF val.error = None THEN "ok" ELSE "failed",
                            ![Cur.cid].result = val.result,
                            ![Cur.cid].rpfs = val.rpfs]
  /\ stack' = IF Len(stack) = 1 THEN <<>>
              ELSE [SubSeq(stack, 1, Len(stack) - 1)
                      EXCEPT ![Len(stack) - 1].pc = "merge"]

\* The messages of the four except clauses, lines 218-226
DecoderFailures ==
  {"Extraction timed out (5 minutes limit)", "Extraction failed",
   "Extraction tool not found. Please check the tool path.",
   "Unexpected error during extraction"}

\* FailureValue with the error swallowed: an empty result and no message
FailureValueSwallowed(msg) ==
  [result |-> Some(ZeroTally), error |-> None, rpfs |-> <<>>]

\* What a failed call returns, lines 219, 222, 224, 226 and 249
FailureValue(msg) == [result |-> None, error |-> Some(msg), rpfs |-> <<>>]

\* The two of them raised for a decoder that ran: it may have written output
\* before it was killed or gave up
FailuresAfterStart == {"Extraction timed out (5 minutes limit)", "Extraction failed"}

\* Where the decoder may leave its output, relative to its working
\* directory, the container's own (cwd, line 205): one of the three places
\* the code looks at, another directory, or nothing at all.
Locations == {"temp", "dlc", "base", "other", "none"}

OutputDir(rpf, loc) ==
  CASE loc = "temp" -> Join(rpf.dir, TempSeg(rpf.name))
    [] loc = "dlc" -> Join(rpf.dir, "dlc")
    [] loc = "base" -> Join(rpf.dir, rpf.name.base)
    [] OTHER -> Join(rpf.dir, "out")

\* The decoder writing the tree of the container of call f at loc
DecoderOutput(f, loc) ==
  LET target == OutputDir(f.rpf, loc)
      cont == f.rpf.name.base
  IN  IF loc = "none" THEN UNCHANGED <<dirs, files>>
      ELSE /\ dirs' = TreeDirs(dirs, target, world[cont], 1)
           /\ files' = TreeFiles(files, target, cont, world[cont], 1)

\* subprocess.run raises: lines 218-226
DecoderFails ==
  /\ At("run")
  /\ \E msg \in DecoderFailures :
       /\ Return(FailureValue(msg))
       /\ \E loc \in IF msg \in FailuresAfterStart THEN Locations ELSE {"none"} :
            DecoderOutput(Cur, loc)
  /\ UNCHANGED <<thread, world, stream_dir, data_dir, moves, cleans, faults>>

\* subprocess.run returns with exit status 0: lines 199-216
DecoderSucceeds ==
  /\ At("run")
  /\ \E loc \in Locations :
       /\ DecoderOutput(Cur, loc)
       /\ calls' = [calls EXCEPT ![Cur.cid].loc = loc]
  /\ stack' = SetCur([Cur EXCEPT !.pc = "locate"])
  /\ UNCHANGED <<thread, world, stream_dir, data_dir, ret, moves, cleans, faults>>

\* possible_dirs, lines 229-233
PossibleDirs(f) ==
  <<f.extraction_dir, Join(f.rpf.dir, "dlc"), Join(f.rpf.dir, f.rpf.name.base)>>

\* The first of possible_dirs that exists, lines 235-238
FirstExisting(ds, cands) ==
  LET hits == {i \in 1..Len(cands) : DirExists(ds, cands[i])}
  IN  IF hits = {} THEN NoDir
      ELSE cands[CHOOSE i \in hits : \A j \in hits : i <= j]

\* The directories the scan of lines 241-246 may stop at: os.listdir
\* promises no order, so the first match is any of them.
FallbackDirs(ds, rpf_dir) ==
  {d \in Range(ds) : Len(d) = Len(rpf_dir) + 1 /\ Parent(d) = rpf_dir
                     /\ Last(d) \notin {"stream", "data"}}

\* The base_dir values lines 228-246 may end with
BaseDirs(ds, f) ==
  IF FirstExisting(ds, PossibleDirs(f)) # NoDir
  THEN {FirstExisting(ds, PossibleDirs(f))}
  ELSE FallbackDirs(ds, f.rpf.dir)

\* lines 228-246, an output directory is found
LocateOutput ==
  /\ At("locate")
  /\ \E d \in BaseDirs(dirs, Cur) :
       /\ stack' = SetCur([Cur EXCEPT !.base_dir = d, !.pc = "prepare"])
       /\ calls' = [calls EXCEPT ![Cur.cid].base_dir = d]
  /\ UNCHANGED <<thread, world, dirs, files, stream_dir, data_dir, ret, moves, cleans, faults>>

\* lines 248-249, none is
NoContent ==
  /\ At("locate")
  /\ BaseDirs(dirs, Cur) = {}
  /\ Return(FailureValue("No extracted content found. The RPF file may be empty or in an unsupported format."))
  /\ UNCHANGED <<thread, world, dirs, files, stream_dir, data_dir, moves, cleans, faults>>

\* ensure_clean_dirs, lines 88-98: rmtree and makedirs of each bucket
EmptyBucket == [exists |-> TRUE, files |-> {}]

\* ShouldClean without the test: every call recreates the buckets
ShouldCleanAlways(is_nested) == TRUE

\* The test of line 251
ShouldClean(is_nested) == ~is_nested

\* lines 251-255
PrepareBuckets ==
  /\ At("prepare")
  /\ IF ShouldClean(Cur.is_nested)
     THEN /\ stream_dir' = EmptyBucket
          /\ data_dir' = EmptyBucket
          /\ cleans' = cleans + 1
     ELSE UNCHANGED <<stream_dir, data_dir, cleans>>
  /\ stack' = SetCur([Cur EXCEPT !.pc = "scan"])
  /\ UNCHANGED <<thread, world, dirs, files, ret, calls, moves, faults>>

\* ------------------------------------------------------------------------
\* move_files, lines 100-181

\* line 111
Ignored(root) == AnyWordIn(IGNORE_FOLDERS, root)

\* line 114
IsImportant(root) == AnyWordIn(IMPORTANT_FOLDERS, root)

\* line 121: file.lower().split('.')[-1]
ExtOf(name) == Lower(name.ext)

\* Classify with the extension tables ahead of the folder test
ClassifyExtensionFirst(is_important, ext) ==
  IF ext = "rpf" THEN "skipped"
  ELSE IF ext \in STREAM_EXTENSIONS THEN "stream"
  ELSE IF ext \in DATA_EXTENSIONS THEN "data"
  ELSE IF is_important THEN "stream"
  ELSE "skipped"

\* Classify with the folder test ahead of the container test
ClassifyImportantFirst(is_important, ext) ==
  IF is_important \/ ext \in STREAM_EXTENSIONS THEN "stream"
  ELSE IF ext = "rpf" THEN "skipped"
  ELSE IF ext \in DATA_EXTENSIONS THEN "data"
  ELSE "skipped"

\* lines 125-137: where a file of a folder that is not ignored goes
Classify(is_important, ext) ==
  IF ext = "rpf" THEN "skipped"
  ELSE IF is_important \/ ext \in STREAM_EXTENSIONS THEN "stream"
  ELSE IF ext \in DATA_EXTENSIONS THEN "data"
  ELSE "skipped"

NamesIn(bucket) == {g.name : g \in bucket.files}

\* lines 141-145: f"{base_name}_{counter}{extension}" for the first
\* counter whose name is free
RECURSIVE Probe(_, _, _)
Probe(names, name, counter) ==
  LET new_name == [base |-> name.base \o "_" \o ToString(counter),
                   ext |-> name.ext]
  IN  IF new_name \in names THEN Probe(names, name, counter + 1)
      ELSE new_name

\* DestName without the test of line 139
DestNameOverwrite(names, name) == name

\* lines 130-145: the name the file gets in the bucket
DestName(names, name) == IF name \in names THEN Probe(names, name, 1) ELSE name

\* How the copy of lines 147-169 may end: all bytes written; an exception
\* before the destination is opened (getsize or open of the source, open
\* of the destination); an exception once it is open (read, write, fsync);
\* the sizes differ.
CopyOutcomes == {"ok", "error_before_open", "error_after_open", "size_mismatch"}

\* open(dest_path, 'wb') and the writes: the bucket after the copy
BucketAfter(bucket, dest, data, outcome) ==
  IF outcome = "error_before_open" THEN bucket
  ELSE [bucket EXCEPT !.files =
          {g \in bucket.files : g.name # dest}
            \cup {[name |-> dest,
                   data |-> CASE outcome = "ok" -> data
                              [] outcome = "error_after_open" -> "partial"
                              [] OTHER -> "mismatched"]}]

\* TallyAfter with line 174 ahead of the copy: a failed copy is counted
\* as moved as well
TallyAfterCountsEarly(moved_files, dest_dir, outcome) ==
  IF outcome = "ok" THEN [moved_files EXCEPT ![dest_dir] = @ + 1]
  ELSE [moved_files EXCEPT ![dest_dir] = @ + 1, !.skipped = @ + 1]

\* lines 174 and 176-178: the tally after the copy
TallyAfter(moved_files, dest_dir, outcome) ==
  IF outcome = "ok" THEN [moved_files EXCEPT ![dest_dir] = @ + 1]
  ELSE [moved_files EXCEPT !.skipped = @ + 1]

\* lines 102-108: the pre-scan; the walk of line 110 sees the same tree,
\* since nothing below base_dir changes while move_files runs
MoveFilesScan ==
  /\ At("scan")
  /\ LET all == Walk(Cur.base_dir, dirs, files)
     IN  stack' = SetCur([Cur EXCEPT !.total_files = Len(all), !.todo = all,
                                     !.moved_files = ZeroTally, !.pc = "walk"])
  /\ UNCHANGED <<thread, world, dirs, files, stream_dir, data_dir, ret, calls, moves,
                 cleans, faults>>

\* lines 111-112: the files of an ignored folder are passed over
SkipIgnored ==
  /\ At("walk") /\ Cur.todo # <<>>
  /\ Ignored(Head(Cur.todo).dir)
  /\ stack' = SetCur([Cur EXCEPT !.todo = Tail(@)])
  /\ UNCHANGED <<thread, world, dirs, files, stream_dir, data_dir, ret, calls, moves,
                 cleans, faults>>

\* lines 125-127 and 135-137: a file that goes to neither bucket
SkipFile ==
  /\ At("walk") /\ Cur.todo # <<>>
  /\ LET file == Head(Cur.todo)
     IN  /\ ~Ignored(file.dir)
         /\ Classify(IsImportant(file.dir), ExtOf(file.name)) = "skipped"
         /\ stack' = SetCur([Cur EXCEPT !.todo = Tail(@),
                                        !.moved_files.skipped = @ + 1])
  /\ UNCHANGED <<thread, world, dirs, files, stream_dir, data_dir, ret, calls, moves,
                 cleans, faults>>

\* lines 129-134 and 139-179: a file that goes to a bucket
CopyFile ==
  /\ At("walk") /\ Cur.todo # <<>>
  /\ LET file == Head(Cur.todo)
         dest_dir == Classify(IsImportant(file.dir), ExtOf(file.name))
         bucket == IF dest_dir = "stream" THEN stream_dir ELSE data_dir
         dest == DestName(NamesIn(bucket), file.name)
     IN  /\ ~Ignored(file.dir)
         /\ dest_dir # "skipped"
         /\ \E outcome \in CopyOutcomes :
              /\ outcome # "ok" => faults < MaxFaults
              /\ faults' = IF outcome = "ok" THEN faults ELSE faults + 1
              /\ IF dest_dir = "stream"
                 THEN /\ stream_dir' = BucketAfter(bucket, dest, file.data, outcome)
                      /\ UNCHANGED data_dir
                 ELSE /\ data_dir' = BucketAfter(bucket, dest, file.data, outcome)
                      /\ UNCHANGED stream_dir
              /\ stack' = SetCur([Cur EXCEPT
                             !.todo = Tail(@),
                             !.moved_files = TallyAfter(@, dest_dir, outcome)])
              /\ moves' = Append(moves, [src |-> [dir |-> file.dir, name |-> file.name],
                                         data |-> file.data, to |-> dest_dir,
                                         dest |-> dest, outcome |-> outcome,
                                         by |-> Cur.cid])
  /\ UNCHANGED <<thread, world, dirs, files, ret, calls, cleans>>

\* ------------------------------------------------------------------------
\* extract_rpf_recursive, the nested containers: lines 262-301

\* line 267: f.lower().endswith(".rpf")
EndsWithRpf(name) == Lower(name.ext) = "rpf"

\* lines 264-268
NestedRpfs(base_dir, ds, fs) ==
  LET found == SelectSeq(Walk(base_dir, ds, fs), LAMBDA f : EndsWithRpf(f.name))
  IN  [i \in 1..Len(found) |-> [dir |-> found[i].dir, name |-> found[i].name]]

\* lines 260-271: move_files has returned
DiscoverNested ==
  /\ At("walk") /\ Cur.todo = <<>>
  /\ stack' = SetCur([Cur EXCEPT !.nested_rpfs = NestedRpfs(Cur.base_dir, dirs, files),
                                 !.idx = 0, !.pc = "loop"])
  /\ calls' = [calls EXCEPT ![Cur.cid].own = Cur.moved_files,
                            ![Cur.cid].nested = NestedRpfs(Cur.base_dir, dirs, files)]
  /\ UNCHANGED <<thread, world, dirs, files, stream_dir, data_dir, ret, moves, cleans, faults>>

\* lines 273-283: the call for the next nested container
CallNested ==
  /\ At("loop") /\ Cur.idx < Len(Cur.nested_rpfs)
  /\ LET nested_rpf == Cur.nested_rpfs[Cur.idx + 1]
         cid == Len(calls) + 1
     IN  /\ stack' = Append(SetCur([Cur EXCEPT !.pc = "wait", !.child = cid]),
                            NewFrame(nested_rpf, TRUE, cid))
         /\ calls' = Append(calls, NewCall(nested_rpf, Len(stack), Cur.cid))
  /\ UNCHANGED <<thread, world, dirs, files, stream_dir, data_dir, ret, moves, cleans, faults>>

\* MergeTally with a failed branch resetting the tally
MergeTallyResets(moved_files, nested_result) ==
  IF nested_result # None
  THEN [stream |-> moved_files.stream + nested_result[1].stream,
        data |-> moved_files.data + nested_result[1].data,
        skipped |-> moved_files.skipped + nested_result[1].skipped]
  ELSE ZeroTally

\* MergeTally with = written for +=
MergeTallyAssign(moved_files, nested_result) ==
  IF nested_result # None THEN nested_result[1] ELSE moved_files

\* Field-wise sum, lines 285-288
MergeTally(moved_files, nested_result) ==
  IF nested_result # None
  THEN [stream |-> moved_files.stream + nested_result[1].stream,
        data |-> moved_files.data + nested_result[1].data,
        skipped |-> moved_files.skipped + nested_result[1].skipped]
  ELSE moved_files

\* MergeRpfs without the test of line 290
MergeRpfsAlways(extracted, nested_rpf, nested_result, nested_extracted_rpfs) ==
  IF nested_result # None
  THEN Append(extracted, nested_rpf) \o nested_extracted_rpfs
  ELSE extracted

\* lines 285 and 290-292
MergeRpfs(extracted, nested_rpf, nested_result, nested_extracted_rpfs) ==
  IF nested_result # None
     /\ (nested_result[1].stream > 0 \/ nested_result[1].data > 0)
  THEN Append(extracted, nested_rpf) \o nested_extracted_rpfs
  ELSE extracted

\* lines 285-292: the nested call has returned
MergeNested ==
  /\ At("merge")
  /\ stack' = SetCur([Cur EXCEPT
       !.moved_files = MergeTally(@, ret.result),
       !.successfully_extracted_rpfs =
          MergeRpfs(@, Cur.nested_rpfs[Cur.idx + 1], ret.result, ret.rpfs),
       !.pc = "cleanup"])
  /\ UNCHANGED <<thread, world, dirs, files, stream_dir, data_dir, ret, calls, moves,
                 cleans, faults>>

\* line 294
NestedExtractDir(nested_rpf) == Join(nested_rpf.dir, TempSeg(nested_rpf.name))

\* lines 294-299: rmtree removes the directory, or raises and leaves it
CleanupNested ==
  /\ At("cleanup")
  /\ LET nested_extract_dir == NestedExtractDir(Cur.nested_rpfs[Cur.idx + 1])
     IN  IF DirExists(dirs, nested_extract_dir)
         THEN \/ /\ dirs' = RmTreeDirs(dirs, nested_extract_dir)
                 /\ files' = RmTreeFiles(files, nested_extract_dir)
                 /\ UNCHANGED <<faults, calls>>
              \/ /\ faults < MaxFaults
                 /\ faults' = faults + 1
                 /\ calls' = [calls EXCEPT ![Cur.child].rm_failed = TRUE]
                 /\ UNCHANGED <<dirs, files>>
         ELSE UNCHANGED <<dirs, files, faults, calls>>
  /\ stack' = SetCur([Cur EXCEPT !.idx = @ + 1, !.pc = "loop"])
  /\ UNCHANGED <<thread, world, stream_dir, data_dir, ret, moves, cleans>>

\* line 301
ReturnResult ==
  /\ At("loop") /\ Cur.idx = Len(Cur.nested_rpfs)
  /\ Return([result |-> Some(Cur.moved_files), error |-> None,
             rpfs |-> Cur.successfully_extracted_rpfs])
  /\ UNCHANGED <<thread, world, dirs, files, stream_dir, data_dir, moves, cleans, faults>>

\* ------------------------------------------------------------------------
\* extraction_thread, lines 481-524: what the caller does with the values
\* the top-level call returned

\* line 493: the containers the prune loop goes through
PruneTargets(result, extracted_rpfs) ==
  IF result # None /\ (result[1].stream > 0 \/ result[1].data > 0)
  THEN extracted_rpfs
  ELSE <<>>

\* lines 497-507: st is the stream bucket and deleted_rpfs so far, fails the
\* positions of the list at which os.remove raises
RECURSIVE PruneLoop(_, _, _, _)
PruneLoop(st, extracted_rpfs, k, fails) ==
  IF k > Len(extracted_rpfs) THEN st
  ELSE LET rpf_name == extracted_rpfs[k].name
       IN  IF rpf_name \in NamesIn(st.stream) /\ k \notin fails
           THEN PruneLoop([stream |-> [st.stream EXCEPT !.files =
                                         {g \in @ : g.name # rpf_name}],
                           deleted_rpfs |-> Append(st.deleted_rpfs, rpf_name)],
                          extracted_rpfs, k + 1, fails)
           ELSE PruneLoop(st, extracted_rpfs, k + 1, fails)

\* lines 489-507: the top-level call has returned; the prune loop
Prune ==
  /\ thread.pc = "extract" /\ ret.done
  /\ LET extracted_rpfs == PruneTargets(ret.result, ret.rpfs)
         found == {k \in 1..Len(extracted_rpfs) :
                     extracted_rpfs[k].name \in NamesIn(stream_dir)}
     IN  \E fails \in SUBSET found :
           /\ faults + Cardinality(fails) <= MaxFaults
           /\ faults' = faults + Cardinality(fails)
           /\ LET st == PruneLoop([stream |-> stream_dir, deleted_rpfs |-> <<>>],
                                  extracted_rpfs, 1, fails)
              IN  /\ stream_dir' = st.stream
                  /\ thread' = [pc |-> "cleanup", deleted_rpfs |-> st.deleted_rpfs]
  /\ UNCHANGED <<world, dirs, files, data_dir, stack, ret, calls, moves, cleans>>

\* The names of the containers of the model
RpfNames ==
  {RootRpf.name} \cup
    {name \in UNION {{w[c][i].name : i \in DOMAIN w[c]} :
                       w \in Worlds, c \in {"root", "c", "e", "g"}} :
       EndsWithRpf(name)}

\* line 519: item.startswith("_temp_") and item.endswith("_extract"), true
\* of the path segments of the model that TempSeg makes and of no other
IsTempItem(item) == \E name \in RpfNames : item = TempSeg(name)

\* lines 510 and 518-520: the directories the clean-up removes
CleanupDirs(ds) ==
  {d \in Range(ds) :
     /\ Parent(d) = RootRpf.dir
     /\ Last(d) = "dlc" \/ IsTempItem(Last(d))}

\* lines 509-524: with auto_cleanup set each of these directories is
\* removed, or its rmtree raises and the directory stays
AutoCleanup ==
  /\ thread.pc = "cleanup"
  /\ \E auto_cleanup \in BOOLEAN :
       IF auto_cleanup
       THEN \E failed \in SUBSET CleanupDirs(dirs) :
              LET gone == CleanupDirs(dirs) \ failed
              IN  /\ faults + Cardinality(failed) <= MaxFaults
                  /\ faults' = faults + Cardinality(failed)
                  /\ dirs' = SelectSeq(dirs, LAMBDA x :
                                         \A d \in gone : ~IsPrefix(d, x))
                  /\ files' = SelectSeq(files, LAMBDA f :
                                          \A d \in gone : ~IsPrefix(d, f.dir))
       ELSE UNCHANGED <<dirs, files, faults>>
  /\ thread' = [thread EXCEPT !.pc = "report"]
  /\ UNCHANGED <<world, stream_dir, data_dir, stack, ret, calls, moves, cleans>>

Next ==
  \/ DecoderFails
  \/ DecoderSucceeds
  \/ LocateOutput
  \/ NoContent
  \/ PrepareBuckets
  \/ MoveFilesScan
  \/ SkipIgnored
  \/ SkipFile
  \/ CopyFile
  \/ DiscoverNested
  \/ CallNested
  \/ MergeNested
  \/ CleanupNested
  \/ ReturnResult
  \/ Prune
  \/ AutoCleanup

Spec == Init /\ [][Next]_vars

\* ========================================================================
\* Properties

TreeNames(tree) == {tree[i].name : i \in 1..Len(tree)}

TreeFolders(tree) == {Join(RootRpf.dir, "dlc") \o tree[i].sub : i \in 1..Len(tree)}

Done == ret.done

NoCopyFailed == \A i \in 1..Len(moves) : moves[i].outcome = "ok"

\* Every decoder invocation of the run exited 0 and wrote its tree
EveryDecodeWrote == \A i \in 1..Len(calls) : calls[i].loc \notin {"", "none"}

\* The container of scenario 1: a.yft, b.meta and c.rpf, c.rpf holding
\* d.ydr, no ignored folder name in any path
ScenarioWorld ==
  /\ Len(world["root"]) = 3
  /\ TreeNames(world["root"]) = {N("a", "yft"), N("b", "meta"), N("c", "rpf")}
  /\ Len(world["c"]) = 1
  /\ TreeNames(world["c"]) = {N("d", "ydr")}
  /\ \A d \in TreeFolders(world["root"]) \cup TreeFolders(world["c"]) : ~Ignored(d)

ScenarioRan == ScenarioWorld /\ Done /\ NoCopyFailed /\ EveryDecodeWrote

ScenarioOutcome(skipped) ==
  /\ ret.error = None
  /\ NamesIn(stream_dir) = {N("a", "yft"), N("d", "ydr")}
  /\ NamesIn(data_dir) = {N("b", "meta")}
  /\ ret.result = Some([stream |-> 2, data |-> 1, skipped |-> skipped])
  /\ \E i \in 1..Len(ret.rpfs) : ret.rpfs[i].name = N("c", "rpf")

\* C1 as the spec states it: scenario 1 ends with stream/ = {a.yft, d.ydr},
\* data/ = {b.meta}, the tally {stream: 2, data: 1, skipped: 0} and c.rpf
\* absorbed.
C1_Original == ScenarioRan => ScenarioOutcome(0)

\* C1, amended: with no important folder name in any path either, every
\* decoder invocation writing its tree and every copy succeeding, scenario 1
\* ends with no error, stream/ = {a.yft, d.ydr}, data/ = {b.meta}, c.rpf
\* absorbed, and the tally {stream: 2, data: 1, skipped: 1}: the walk counts
\* c.rpf itself as skipped.
C1_Scenario ==
  (ScenarioRan /\ \A d \in TreeFolders(world["root"]) : ~IsImportant(d))
    => ScenarioOutcome(1)

C1_Witness ==
  /\ ScenarioRan
  /\ \A d \in TreeFolders(world["root"]) : ~IsImportant(d)
  /\ ret.result = Some([stream |-> 2, data |-> 1, skipped |-> 1])

\* f"{base_name}_{counter}{extension}"
Suffixed(name, k) == [base |-> name.base \o "_" \o ToString(k), ext |-> name.ext]

\* dest is name if that is free among names, else the suffixed name of the
\* smallest k >= 1 that is free
SmallestFree(names, name, dest) ==
  IF name \notin names THEN dest = name
  ELSE \E k \in 1..(Cardinality(names) + 1) :
         /\ dest = Suffixed(name, k)
         /\ dest \notin names
         /\ \A j \in 1..(k - 1) : Suffixed(name, j) \in names

\* A step of move_files that attempts a copy
CopyStep == Len(moves') = Len(moves) + 1

BucketOf(to) == IF to = "stream" THEN stream_dir ELSE data_dir

\* C2: a copy goes to base.ext if that name is free in the bucket and else
\* to base_k.ext for the smallest free k >= 1, and no step other than the
\* top-level recreation of the buckets removes or changes a file that is
\* in a bucket.
C2_NeverOverwrites ==
  [][ /\ CopyStep =>
           LET m == moves'[Len(moves')]
           IN  SmallestFree(NamesIn(BucketOf(m.to)), m.src.name, m.dest)
      /\ cleans' = cleans =>
           /\ stream_dir.files \subseteq stream_dir'.files
           /\ data_dir.files \subseteq data_dir'.files ]_vars

\* x.ydr moved three times: x.ydr, x_1.ydr and x_2.ydr
C2_Witness ==
  \E i, j, k \in 1..Len(moves) :
    /\ i < j /\ j < k
    /\ \A n \in {i, j, k} : moves[n].src.name = N("x", "ydr") /\ moves[n].to = "stream"
    /\ moves[i].dest = N("x", "ydr")
    /\ moves[j].dest = N("x_1", "ydr")
    /\ moves[k].dest = N("x_2", "ydr")
    /\ {N("x", "ydr"), N("x_1", "ydr"), N("x_2", "ydr")} \subseteq NamesIn(stream_dir)

\* A step in which the call at its decoder invocation returns
DecoderFailStep == At("run") /\ Len(stack') < Len(stack)

\* C3: a call whose decoder invocation fails returns at once with the error
\* set, no tally and an empty absorbed list, and the step neither creates
\* nor changes a bucket; for the top-level call this step is the whole call.
C3_DecoderFailure ==
  [][ DecoderFailStep =>
        /\ ret'.error # None
        /\ ret'.result = None
        /\ ret'.rpfs = <<>>
        /\ ret'.done = ~Cur.is_nested
        /\ calls'[Cur.cid].status = "failed"
        /\ stream_dir' = stream_dir /\ data_dir' = data_dir
        /\ cleans' = cleans /\ moves' = moves ]_vars

\* The top-level decoder failed and the buckets of the earlier run are there
C3_Witness ==
  /\ Done /\ Len(calls) = 1 /\ calls[1].loc = ""
  /\ ret.error # None /\ ret.result = None
  /\ stream_dir = OldStream /\ data_dir = OldData

\* The calls made by call p, in order
Kids(p) == SelectSeq([j \in 1..Len(calls) |-> j], LAMBDA j : calls[j].parent = p)

RECURSIVE SumOk(_, _, _)
SumOk(tally, kids, k) ==
  IF k > Len(kids) THEN tally
  ELSE LET c == calls[kids[k]]
       IN  SumOk(IF c.status = "ok"
                 THEN [stream |-> tally.stream + c.result[1].stream,
                       data |-> tally.data + c.result[1].data,
                       skipped |-> tally.skipped + c.result[1].skipped]
                 ELSE tally,
                 kids, k + 1)

\* C4: a failed nested call aborts its own branch only: between two nested
\* containers the parent has called exactly the containers found so far, in
\* discovery order, failed ones included, and its tally is its own
\* move_files tally plus the tallies of the nested calls that succeeded; a
\* call that got to its nested containers never returns an error, and
\* returns only after calling every one of them.
C4_FailureIsLocal ==
  /\ \A i \in 1..Len(stack) :
       LET f == stack[i]
           kids == Kids(f.cid)
       IN  f.pc = "loop" =>
             /\ [k \in 1..Len(kids) |-> calls[kids[k]].rpf]
                  = SubSeq(f.nested_rpfs, 1, f.idx)
             /\ \A k \in 1..Len(kids) : calls[kids[k]].status # "running"
             /\ f.moved_files = SumOk(calls[f.cid].own, kids, 1)
  /\ \A p \in 1..Len(calls) :
       /\ (calls[p].status = "failed" => Kids(p) = <<>>)
       /\ (calls[p].status = "ok" =>
             /\ [k \in 1..Len(Kids(p)) |-> calls[Kids(p)[k]].rpf] = calls[p].nested
             /\ calls[p].result = Some(SumOk(calls[p].own, Kids(p), 1)))

\* A nested call failed, a later sibling moved a file, the parent returned
C4_Witness ==
  \E p \in 1..Len(calls) :
    /\ calls[p].status = "ok" /\ Len(Kids(p)) = 2
    /\ calls[p].own.stream >= 1
    /\ calls[Kids(p)[1]].status = "failed"
    /\ calls[Kids(p)[2]].status = "ok"
    /\ calls[Kids(p)[2]].result[1].stream >= 1

\* C5: the buckets are recreated at most once, by the top-level call and
\* before any copy; a run that copies a file or returns without error has
\* recreated them exactly once; and from then on every step leaves both
\* bucket directories in place with every file they hold.
C5_BucketsOnce ==
  /\ [](/\ cleans <= 1
        /\ (moves # <<>> => cleans = 1)
        /\ (Done /\ ret.error = None => cleans = 1))
  /\ [][ /\ cleans' # cleans =>
              /\ cleans' = cleans + 1
              /\ Len(stack) = 1 /\ ~Cur.is_nested /\ moves = <<>>
              /\ stream_dir' = EmptyBucket /\ data_dir' = EmptyBucket
         /\ cleans = 1 =>
              /\ stream_dir'.exists /\ data_dir'.exists
              /\ stream_dir.files \subseteq stream_dir'.files
              /\ data_dir.files \subseteq data_dir'.files ]_vars

\* The top-level call and a call two levels below it have copied into the
\* buckets, which were recreated once
C5_Witness ==
  /\ Done /\ cleans = 1
  /\ \E i, j \in 1..Len(moves) :
       /\ calls[moves[i].by].depth = 0 /\ moves[i].outcome = "ok"
       /\ calls[moves[j].by].depth = 2 /\ moves[j].outcome = "ok"
       /\ [name |-> moves[i].dest, data |-> moves[i].data] \in BucketOf(moves[i].to).files
       /\ [name |-> moves[j].dest, data |-> moves[j].data] \in BucketOf(moves[j].to).files

FailedCopyStep == CopyStep /\ moves'[Len(moves')].outcome # "ok"

\* C6: a copy that fails adds exactly 1 to skipped and nothing to stream or
\* data, and no step taken while files of the walk are pending does
\* anything but pass to the next file: the call stays in its walk.
C6_FailureIsSkipped ==
  [][ /\ FailedCopyStep =>
           stack'[Len(stack)].moved_files =
             [Cur.moved_files EXCEPT !.skipped = @ + 1]
      /\ (At("walk") /\ Cur.todo # <<>>) =>
           /\ Len(stack') = Len(stack)
           /\ stack'[Len(stack)].pc = "walk"
           /\ stack'[Len(stack)].todo = Tail(Cur.todo) ]_vars

\* A size mismatch followed by a good copy in the same walk, and the run
\* returns without error
C6_Witness ==
  /\ Done /\ ret.error = None
  /\ \E i, j \in 1..Len(moves) :
       /\ i < j
       /\ moves[i].by = moves[j].by
       /\ moves[i].outcome = "size_mismatch"
       /\ moves[j].outcome = "ok"
       /\ calls[moves[i].by].own = [stream |-> 0, data |-> 1, skipped |-> 2]

\* The files os.walk(base_dir) reports to a call whose walk is over: nothing
\* below base_dir has changed since the pre-scan
Scanned(f) == Walk(f.base_dir, dirs, files)

Count(seq, Test(_)) == Cardinality({i \in 1..Len(seq) : Test(seq[i])})

\* C7 as the spec states it: no file of a folder whose path holds an ignored
\* folder name is copied, and each such file of the pre-scan is counted once
\* in skipped: when a walk is over, skipped is the number of files of
\* ignored folders, plus the files that go to neither bucket, plus the
\* copies that failed.
C7_IgnoredCounted ==
  /\ \A i \in 1..Len(moves) : ~Ignored(moves[i].src.dir)
  /\ \A i \in 1..Len(stack) :
       LET f == stack[i]
       IN  (f.pc = "walk" /\ f.todo = <<>>) =>
             f.moved_files.skipped =
               Count(Scanned(f), LAMBDA x : Ignored(x.dir))
               + Count(Scanned(f), LAMBDA x :
                         /\ ~Ignored(x.dir)
                         /\ Classify(IsImportant(x.dir), ExtOf(x.name)) = "skipped")
               + Count(moves, LAMBDA m : m.by = f.cid /\ m.outcome # "ok")

\* The part of C7 that the code keeps: nothing of an ignored folder is copied
C7_IgnoredNeverMoved == \A i \in 1..Len(moves) : ~Ignored(moves[i].src.dir)

\* The file the walk is at lies in an important folder that is not ignored
ImportantHead ==
  /\ At("walk") /\ Cur.todo # <<>>
  /\ IsImportant(Head(Cur.todo).dir)
  /\ ~Ignored(Head(Cur.todo).dir)

\* The step sends that file to the stream bucket
RoutedToStream ==
  /\ CopyStep
  /\ LET m == moves'[Len(moves')]
         file == Head(Cur.todo)
     IN  /\ m.to = "stream"
         /\ m.src = [dir |-> file.dir, name |-> file.name]
         /\ data_dir' = data_dir
         /\ m.outcome = "ok" =>
              /\ [name |-> m.dest, data |-> file.data] \in stream_dir'.files
              /\ stack'[Len(stack)].moved_files =
                   [Cur.moved_files EXCEPT !.stream = @ + 1]

\* C8 as the spec states it: a file of an important folder that is not
\* ignored goes to the stream bucket whatever its extension.
C8_Original == [][ImportantHead => RoutedToStream]_vars

\* C8, amended: a file of an important folder that is not ignored goes to
\* the stream bucket whatever its extension, except the container extension
\* rpf: such a file is counted as skipped and goes to neither bucket.
C8_ImportantIsStream ==
  [][ ImportantHead =>
        IF ExtOf(Head(Cur.todo).name) # "rpf" THEN RoutedToStream
        ELSE /\ ~CopyStep
             /\ stream_dir' = stream_dir /\ data_dir' = data_dir
             /\ stack'[Len(stack)].moved_files =
                  [Cur.moved_files EXCEPT !.skipped = @ + 1] ]_vars

\* vehicles/h.meta and vehicles/k.txt are in stream/, vehicles/c.rpf was
\* counted as skipped
C8_Witness ==
  /\ \E i, j \in 1..Len(moves) :
       /\ moves[i].src = [dir |-> <<"mods", "dlc", "vehicles">>, name |-> N("h", "meta")]
       /\ moves[j].src = [dir |-> <<"mods", "dlc", "vehicles">>, name |-> N("k", "txt")]
       /\ moves[i].to = "stream" /\ moves[j].to = "stream"
       /\ moves[i].outcome = "ok" /\ moves[j].outcome = "ok"
       /\ {N("h", "meta"), N("k", "txt")} \subseteq NamesIn(stream_dir)
  /\ calls[1].own = [stream |-> 2, data |-> 0, skipped |-> 2]

\* The calls below call i: those started while it ran
Desc(i) ==
  {j \in (i + 1)..Len(calls) : \A k \in (i + 1)..j : calls[k].depth > calls[i].depth}

\* The call returned without error and its merged tally has stream + data >= 1
Absorbed(c) ==
  /\ c.status = "ok"
  /\ c.result[1].stream + c.result[1].data >= 1

\* The containers of the absorbed calls below call i, in the order the calls
\* started: discovery order, each container followed by those found in it
AbsorbedBelow(i) ==
  LET js == SelectSeq([j \in 1..Len(calls) |-> j],
                      LAMBDA j : j \in Desc(i) /\ Absorbed(calls[j]))
  IN  [k \in 1..Len(js) |-> calls[js[k]].rpf]

\* C9: a call that returns without error returns as its list the containers
\* of the nested calls below it that returned without error with a merged
\* tally of stream + data >= 1, in discovery order, each followed by the
\* containers it recorded, and no other container.
C9_AbsorbedList ==
  /\ \A i \in 1..Len(calls) :
       calls[i].status = "ok" => calls[i].rpfs = AbsorbedBelow(i)
  /\ (Done /\ ret.error = None) => ret.rpfs = AbsorbedBelow(1)

\* g.rpf returned an all-zero tally and is not listed, c.rpf is listed and
\* followed by e.rpf, found in it, and a nested call that failed is not
C9_Witness ==
  /\ Done /\ ret.error = None
  /\ Len(ret.rpfs) = 2
  /\ ret.rpfs[1].name = N("c", "rpf") /\ ret.rpfs[2].name = N("e", "rpf")
  /\ \E j \in 2..Len(calls) :
       /\ calls[j].rpf.name = N("g", "rpf") /\ calls[j].status = "ok"
       /\ calls[j].result = Some([stream |-> 0, data |-> 0, skipped |-> 1])
  /\ \E j \in 2..Len(calls) :
       calls[j].rpf.name = N("c", "rpf") /\ calls[j].result[1].stream = 1
                                         /\ calls[j].own.stream = 0

\* C10 as the spec states it: once the parent is done with a nested
\* container, the directory located as that container's decoder output is
\* gone, unless its removal failed.
C10_ScratchRemoved ==
  \A i \in 1..Len(stack) :
    LET f == stack[i]
    IN  (f.pc = "loop" /\ f.idx >= 1) =>
          LET c == calls[f.child]
          IN  (c.base_dir # NoDir /\ ~c.rm_failed) => ~DirExists(dirs, c.base_dir)

\* What the code does: the directory _temp_<name>_extract beside the nested
\* container is gone, unless its removal failed
C10_TempRemoved ==
  \A i \in 1..Len(stack) :
    LET f == stack[i]
    IN  (f.pc = "loop" /\ f.idx >= 1) =>
          (~calls[f.child].rm_failed =>
             ~DirExists(dirs, NestedExtractDir(f.nested_rpfs[f.idx])))

\* The top-level call has returned without error
ReturnedOk == Done /\ ret.error = None

\* C11 as the spec states it: when the top-level call returns without error,
\* stream/ holds as many files as the returned tally's stream count and
\* data/ as many as its data count, whatever copies failed.
C11_TallyMatchesBuckets ==
  ReturnedOk =>
    /\ Cardinality(NamesIn(stream_dir)) = ret.result[1].stream
    /\ Cardinality(NamesIn(data_dir)) = ret.result[1].data

\* The files a failed copy left behind in a bucket
Leftovers(bucket) == {g \in bucket.files : g.data \in {"partial", "mismatched"}}

\* What the code does: each bucket holds one file for each copy counted in
\* the tally and one more for each copy that failed once its destination was
\* open
C11_TallyPlusLeftovers ==
  ReturnedOk =>
    /\ Cardinality(NamesIn(stream_dir))
         = ret.result[1].stream + Cardinality(Leftovers(stream_dir))
    /\ Cardinality(NamesIn(data_dir))
         = ret.result[1].data + Cardinality(Leftovers(data_dir))

\* C12 as the spec states it: within one top-level extraction no file the
\* decoder produced is copied into a bucket by more than one call, wherever
\* the decoder wrote its output: two copies of the same source file with
\* the same content are the work of the same call.
C12_ConsolidatedOnce ==
  \A i, j \in 1..Len(moves) :
    (moves[i].src = moves[j].src /\ moves[i].data = moves[j].data)
      => moves[i].by = moves[j].by

\* What the code keeps: one call copies a source file at most once
C12_OncePerCall ==
  \A i, j \in 1..Len(moves) :
    (moves[i].src = moves[j].src /\ moves[i].by = moves[j].by) => i = j

\* No file of the bucket has the container extension
NoContainerIn(bucket) == \A g \in bucket.files : ExtOf(g.name) # "rpf"

\* A step in which extraction_thread goes through its prune loop
PruneStep == thread.pc = "extract" /\ thread'.pc = "cleanup"

\* C13: at every point of the extraction and after it no file of stream/ or
\* data/ has the extension rpf in any case, whatever folder it came from and
\* whatever name the collision renaming gave it; every container of the
\* absorbed list has that extension, so the prune loop of extraction_thread
\* finds none of them in stream/, deletes nothing and leaves stream/ as it
\* is.
C13_NoContainerInBuckets ==
  /\ [](NoContainerIn(stream_dir) /\ NoContainerIn(data_dir))
  /\ [][ PruneStep =>
           /\ \A k \in 1..Len(ret.rpfs) :
                /\ ExtOf(ret.rpfs[k].name) = "rpf"
                /\ ret.rpfs[k].name \notin NamesIn(stream_dir)
           /\ thread'.deleted_rpfs = <<>>
           /\ stream_dir' = stream_dir ]_vars

\* The prune loop went through a list that holds vehicles/c.rpf, a container
\* of an important folder that was skipped by the walk and whose own file
\* t.txt is in stream/, and it deleted nothing
C13_Witness ==
  /\ thread.pc # "extract"
  /\ PruneTargets(ret.result, ret.rpfs) # <<>>
  /\ \E k \in 1..Len(ret.rpfs) :
       /\ ret.rpfs[k].name = N("c", "rpf")
       /\ IsImportant(ret.rpfs[k].dir)
  /\ \E i \in 1..Len(moves) :
       /\ moves[i].data = "c:t.txt" /\ moves[i].outcome = "ok"
       /\ moves[i].dest \in NamesIn(stream_dir)
  /\ thread.deleted_rpfs = <<>>

====
